---- MODULE Spec2Model ----
(***************************************************************************)
(* Model of the base service class (BaseService / Service): create, find,  *)
(* findOne, update and delete against one table, with pre/post hooks and   *)
(* audit-column stamping.  Three source variants are modelled side by side *)
(* and selected by the variable "variant":                                 *)
(*   "index"    src/src/index.ts 28-339   BaseService with isAuditable     *)
(*   "part_000" src/unnamed/part_000      BaseService, always audited      *)
(*   "Service"  src/src/index.ts 362-536  Service, no audit columns        *)
(* Every public method is an async function: each action below is the      *)
(* synchronous code between two awaits, and the awaited collaborator or    *)
(* hook runs when it is called, its outcome being delivered to the caller  *)
(* by the next action of the same call.                                    *)
(***************************************************************************)
EXTENDS Integers, Sequences, FiniteSets, TLC

VARIABLES variant, isAuditable, mode, locks, now, table, this, calls, started

vars == <<variant, isAuditable, mode, locks, now, table, this, calls, started>>

(* ------------------------------ bounds --------------------------------- *)

\* Largest reading of the clock.
MaxTime == 1

\* Number of calls made on the instance in one behaviour.
MaxCalls == 2

\* The call slots: calls that may be in flight on the one service instance.
Slots == {1, 2}

(* --------------------------- configuration ----------------------------- *)

primaryKeyColumnNames == <<"id", "rev">>

dataColumnNames == <<"name", "price">>

auditColumnNames == <<"creation_date", "created_by", "last_update_date", "last_updated_by">>

systemColumnNames == <<"sys">>

Range(seq) == {seq[i] : i \in DOMAIN seq}

\* Mutant: the system columns are listed before the audit columns.
columnNamesSystemFirst ==
    primaryKeyColumnNames \o dataColumnNames \o systemColumnNames
        \o (IF isAuditable THEN auditColumnNames ELSE <<>>)

\* this.columnNames as the constructor derives it.
columnNames ==
    primaryKeyColumnNames \o dataColumnNames
        \o (IF isAuditable THEN auditColumnNames ELSE <<>>)
        \o systemColumnNames

(* ------------------------------ objects -------------------------------- *)

\* The empty object {}.
EmptyRec == [c \in {} |-> 0]

\* typeof userUUId === 'undefined'
Undefined == "undefined"

\* SQL NULL in a stored column.
Null == "null"

\* Object.keys(obj)
Keys(obj) == DOMAIN obj

\* pickObjectKeys(obj, keys) / pick(obj, keys): the keys of obj named in keys.
pickObjectKeys(obj, keys) == [c \in (DOMAIN obj \cap Range(keys)) |-> obj[c]]

\* Object.assign({}, a, b) and { ...a, ...b }: b's fields win.
Assign(a, b) ==
    [c \in (DOMAIN a \cup DOMAIN b) |-> IF c \in DOMAIN b THEN b[c] ELSE a[c]]

\* areObjectsEqual(a, b) / objectsEqual(a, b): same keys, same values.
areObjectsEqual(a, b) ==
    /\ DOMAIN a = DOMAIN b
    /\ \A c \in DOMAIN a : a[c] = b[c]

(* --------------------------- inputs ------------------------------------ *)

PrimaryKeys == {[id |-> 1, rev |-> 1], [id |-> 2, rev |-> 1]}

CreatePayloads ==
    { [id |-> 1, rev |-> 1, name |-> "a", price |-> 10],
      [id |-> 2, rev |-> 1, name |-> "b", price |-> 10, sys |-> "x"],
      [id |-> 1, name |-> "a", price |-> 10],
      [name |-> "a", price |-> 10] }

UpdatePayloads ==
    { [price |-> 10],
      [price |-> 12],
      [price |-> 12, extra |-> "x", created_by |-> "x", sys |-> "x"],
      [extra |-> "x"],
      [id |-> 2, price |-> 12] }

CreateUsers == {"u1", Undefined}

UpdateUsers == {"u2", Undefined}

(* ------------------- the table and its collaborators ------------------- *)
(* database-helpers is an external package: its functions are modelled     *)
(* from their interface (checkPrimaryKey, createRow, findByPrimaryKey,     *)
(* updateRow, deleteRow) acting on the set of stored rows.                 *)

Ok(row) == [ok |-> TRUE, row |-> row, error |-> ""]

Err(error) == [ok |-> FALSE, row |-> EmptyRec, error |-> error]

\* The stored rows a key selects.
Matching(rows, key) ==
    {r \in rows : \A c \in DOMAIN key : c \in DOMAIN r /\ r[c] = key[c]}

IsFullKey(key) == DOMAIN key = Range(primaryKeyColumnNames)

\* checkPrimaryKey(query, tableName, primaryKey): rejects when a row has the key.
checkPrimaryKey(rows, key) ==
    IF Matching(rows, key) # {} THEN Err("DuplicateKeyError") ELSE Ok(EmptyRec)

\* The values the data layer supplies for columns an insert leaves out.
ColumnDefaults(cols, date) ==
    [c \in (Range(cols) \cap (Range(auditColumnNames) \cup Range(systemColumnNames))) |->
        CASE c \in {"creation_date", "last_update_date"} -> date
          [] c \in {"created_by", "last_updated_by"} -> Null
          [] OTHER -> "s0"]

\* createRow(query, tableName, data, columnNames) at the time date: the rows
\* an insert may produce; a key column left out is generated by the data
\* layer, and no row is produced when the key is taken.
createRow(rows, fields, cols, date) ==
    LET f == pickObjectKeys(fields, cols)
        given == pickObjectKeys(f, primaryKeyColumnNames)
        free == {k \in PrimaryKeys :
                    /\ \A c \in DOMAIN given : k[c] = given[c]
                    /\ Matching(rows, k) = {}}
    IN  {Assign(Assign(ColumnDefaults(cols, date), f), k) : k \in free}

\* findByPrimaryKey(query, tableName, primaryKey, {columnNames, forUpdate})
findByPrimaryKey(rows, key, hasCols, cols) ==
    IF ~IsFullKey(key) THEN Err("InvalidKeyError")
    ELSE IF Matching(rows, key) = {} THEN Err("NotFoundError")
    ELSE LET r == CHOOSE x \in Matching(rows, key) : TRUE
         IN  Ok(IF hasCols THEN pickObjectKeys(r, cols) ELSE r)

\* updateRow(query, tableName, primaryKey, data, columnNames): the outcome
\* and the rows stored afterwards.
updateRow(rows, key, fields, cols) ==
    IF ~IsFullKey(key) THEN [pending |-> Err("InvalidKeyError"), table |-> rows]
    ELSE IF Matching(rows, key) = {} THEN [pending |-> Err("NotFoundError"), table |-> rows]
    ELSE LET old == CHOOSE x \in Matching(rows, key) : TRUE
             new == Assign(old, pickObjectKeys(fields, cols))
             newKey == pickObjectKeys(new, primaryKeyColumnNames)
         IN  IF newKey # key /\ Matching(rows, newKey) # {}
             THEN [pending |-> Err("DuplicateKeyError"), table |-> rows]
             ELSE [pending |-> Ok(pickObjectKeys(new, cols)),
                   table |-> (rows \ {old}) \cup {new}]

\* deleteRow(query, tableName, primaryKey): the rows stored afterwards.
deleteRow(rows, key) ==
    IF ~IsFullKey(key) THEN rows ELSE rows \ Matching(rows, key)

\* The outcomes of deleteRow: the row is deleted, or the database refuses
\* (the row is referenced from another table) and deletes nothing.
DeleteOutcomes == {Ok(EmptyRec), Err("ForeignKeyError")}

(* ------------------------------ calls ---------------------------------- *)

\* The Query handle (a connection with its transaction) the caller of the
\* call in slot s passes: calls made one at a time arrive in slot 1 on one
\* handle, overlapping requests each bring their own.
QueryOf(s) == s

\* No Query handle: the initial this.query, and the handle of a hook, which
\* takes none.
NoQuery == 0

\* One collaborator or hook invocation of a call: its arguments and outcome.
Ev(query, kind, key, fields, hasCols, cols, forUpdate, out) ==
    [query |-> query, kind |-> kind, key |-> key, fields |-> fields, hasCols |-> hasCols,
     cols |-> cols, forUpdate |-> forUpdate, out |-> out]

IdleCall ==
    [pc |-> "idle", op |-> "", primaryKey |-> EmptyRec, data |-> EmptyRec,
     userUUId |-> Undefined, pending |-> Ok(EmptyRec), result |-> EmptyRec,
     error |-> "", trace |-> <<>>]

NewCall(op, primaryKey, data, userUUId) ==
    [IdleCall EXCEPT !.op = op, !.primaryKey = primaryKey, !.data = data,
                     !.userUUId = userUUId]

\* A call starts in the first slot that holds no call in flight; in
\* sequential, hooks and history mode it starts only when no call is in
\* flight at all. In history mode every call takes a slot of its own, so
\* that the outcome of the previous call stays on record.
InFlight(s) == calls[s].pc \notin {"idle", "done", "failed"}

CanBegin(s) ==
    /\ started < MaxCalls
    /\ ~InFlight(s)
    /\ IF mode = "history" THEN s = started + 1 ELSE \A t \in Slots : t < s => InFlight(t)
    /\ (mode \in {"concurrent", "locking"} \/ \A t \in Slots : ~InFlight(t))

\* What a pre-hook (preCreate, preUpdate, ...) may do: resolve or reject,
\* and, as the hooks exist for, fill this.system before the write. In hooks
\* mode an overriding hook may also place fields named like audit columns
\* into this.system or into the payload the method holds on the instance.
PreHookOutcomes ==
    { [ok |-> TRUE, setSystem |-> FALSE, place |-> "none"],
      [ok |-> TRUE, setSystem |-> TRUE, place |-> "none"],
      [ok |-> FALSE, setSystem |-> FALSE, place |-> "none"] }
    \cup (IF mode = "hooks"
          THEN { [ok |-> TRUE, setSystem |-> TRUE, place |-> "system"],
                 [ok |-> TRUE, setSystem |-> FALSE, place |-> "payload"] }
          ELSE {})

\* A hook invocation and its outcome.
Hook(kind, h) ==
    Ev(NoQuery, kind, EmptyRec, EmptyRec, FALSE, <<>>, FALSE,
       IF h.ok THEN Ok(EmptyRec) ELSE Err("HookError"))

\* The audit-named fields an overriding pre-hook places.
HookAuditFields == [created_by |-> "h", last_updated_by |-> "h", last_update_date |-> -1]

\* The instance as the pre-hook leaves it; payload is the field in which the
\* method holds its payload (createData or updateData).
HookSystem(t, h, payload) ==
    LET t1 == IF h.setSystem THEN [t EXCEPT !.system = [sys |-> "s1"]] ELSE t
    IN  CASE h.place = "system" -> [t1 EXCEPT !.system = Assign(@, HookAuditFields)]
          [] h.place = "payload" -> [t1 EXCEPT ![payload] = Assign(@, HookAuditFields)]
          [] OTHER -> t1

\* Mutant: a rejection is swallowed and the method carries on.
RejectedNever(c) == FALSE

\* Mutant: the rejection of a hook is caught and the method carries on.
RejectedUnlessHook(c) == ~c.pending.ok /\ c.pending.error # "HookError"

\* The awaited promise of the call rejected: the await throws, and the
\* async method rejects with the same error.
Rejected(c) == ~c.pending.ok

\* Mutant: the method rejects with an error of its own in place of the
\* error it caught.
FailWrapped(c, error) == [c EXCEPT !.pc = "failed", !.error = "ServiceError"]

\* The async method rejects with the error its await threw.
Fail(c, error) == [c EXCEPT !.pc = "failed", !.error = error]

Done(c, result) == [c EXCEPT !.pc = "done", !.result = result]

\* The call awaits the invocation ev: it resumes at pc with ev's outcome.
Await(c, pc, ev) ==
    [c EXCEPT !.pc = pc, !.pending = ev.out, !.trace = Append(@, ev)]

EmptyThis ==
    [query |-> NoQuery, primaryKey |-> EmptyRec, createData |-> EmptyRec, updateData |-> EmptyRec,
     audit |-> EmptyRec, system |-> EmptyRec, row |-> EmptyRec,
     createdRow |-> EmptyRec, updatedRow |-> EmptyRec,
     columnNames |-> columnNames]

\* Rows the table may hold when the service is constructed: the table
\* outlives the instance, and its rows carry every configured column.
InitialRows ==
    { [id |-> 1, rev |-> 1, name |-> "a", price |-> 10, creation_date |-> 0,
       created_by |-> "u1", last_update_date |-> 0, last_updated_by |-> "u1",
       sys |-> "s0"],
      [id |-> 2, rev |-> 1, name |-> "b", price |-> 10, creation_date |-> 0,
       created_by |-> Null, last_update_date |-> 0, last_updated_by |-> Null,
       sys |-> "s0"] }

InitialTables ==
    { {pickObjectKeys(r, columnNames) : r \in rows} :
        rows \in {{}, InitialRows} }

\* Every table made of those rows.
HistoryTables ==
    { {pickObjectKeys(r, columnNames) : r \in rows} : rows \in SUBSET InitialRows }

Configs ==
    { <<"index", TRUE>>, <<"index", FALSE>>, <<"part_000", TRUE>>, <<"Service", FALSE>> }

InitMode(m) ==
    /\ \E cfg \in Configs : variant = cfg[1] /\ isAuditable = cfg[2]
    /\ mode = m
    /\ locks = [k \in PrimaryKeys |-> NoQuery]
    /\ now = 0
    /\ table \in (IF m = "history" THEN HistoryTables ELSE InitialTables)
    /\ started = 0
    /\ this = EmptyThis
    /\ calls = [s \in Slots |-> IdleCall]

Init == InitMode("sequential")

InitConcurrent == InitMode("concurrent")

\* A reading of the clock (new Date(), or the data layer's now()): the
\* clock never runs backwards.
ClockReadings == now .. MaxTime

(* ------------------------------ create --------------------------------- *)

\* Mutant: create never checks the key and leaves uniqueness to the insert.
CreateChecksKeyNever(primaryKey) == FALSE

\* The condition under which create checks the key before inserting.
CreateChecksKey(primaryKey) ==
    IF variant = "part_000"
    THEN Cardinality(Keys(primaryKey)) = Len(primaryKeyColumnNames)
    ELSE Cardinality(Keys(primaryKey)) # 0

\* Mutant: create stamps the actor whether or not the entity is audited.
CreateAuditAlways(userUUId) ==
    IF variant = "Service" THEN EmptyRec
    ELSE IF userUUId # Undefined
    THEN [created_by |-> userUUId, last_updated_by |-> userUUId]
    ELSE EmptyRec

\* Mutant: create stamps the creator and forgets the last updater.
CreateAuditCreatorOnly(userUUId) ==
    IF variant = "Service" THEN EmptyRec
    ELSE IF (variant = "part_000" \/ isAuditable) /\ userUUId # Undefined
    THEN [created_by |-> userUUId]
    ELSE EmptyRec

\* The audit fields create stamps.
CreateAudit(userUUId) ==
    IF variant = "Service" THEN EmptyRec
    ELSE IF (variant = "part_000" \/ isAuditable) /\ userUUId # Undefined
    THEN [created_by |-> userUUId, last_updated_by |-> userUUId]
    ELSE EmptyRec

\* The instance fields create sets before it checks the key.
CreateEntry(t, createData) ==
    IF variant = "Service"
    THEN [t EXCEPT !.primaryKey = pickObjectKeys(createData, primaryKeyColumnNames),
                   !.createData = createData, !.system = EmptyRec]
    ELSE [t EXCEPT !.primaryKey = pickObjectKeys(createData, primaryKeyColumnNames)]

\* The instance fields create sets between the key check and preCreate.
CreatePrepare(t, createData, userUUId) ==
    CASE variant = "index" -> [t EXCEPT !.createData = createData, !.system = EmptyRec]
      [] variant = "part_000" ->
            [t EXCEPT !.createData = createData, !.audit = CreateAudit(userUUId),
                      !.system = EmptyRec]
      [] OTHER -> t

\* The fields create passes to createRow.
CreateFields(t, userUUId) ==
    CASE variant = "index" -> Assign(Assign(t.createData, t.system), CreateAudit(userUUId))
      [] variant = "part_000" -> Assign(Assign(t.createData, t.audit), t.system)
      [] OTHER -> Assign(t.createData, t.system)

\* The instance field that holds the inserted row.
CreateStore(t, row) ==
    IF variant = "Service" THEN [t EXCEPT !.row = row] ELSE [t EXCEPT !.createdRow = row]

CreateReturn(t) == IF variant = "Service" THEN t.row ELSE t.createdRow

\* create(query, createData, userUUId) up to its first await.
CreateBegin(s, createData, userUUId) ==
    /\ CanBegin(s)
    /\ \E h \in PreHookOutcomes :
        LET c == NewCall("create", EmptyRec, createData, userUUId)
            t == CreateEntry([this EXCEPT !.query = QueryOf(s)], createData)
        IN  IF CreateChecksKey(t.primaryKey)
            THEN /\ this' = t
                 /\ calls' = [calls EXCEPT ![s] =
                        Await(c, "create_check",
                              Ev(t.query, "checkPrimaryKey", t.primaryKey, EmptyRec, FALSE,
                                 <<>>, FALSE,
                                 checkPrimaryKey(table, t.primaryKey)))]
            ELSE /\ this' = HookSystem(CreatePrepare(t, createData, userUUId), h, "createData")
                 /\ calls' = [calls EXCEPT ![s] = Await(c, "create_pre", Hook("preCreate", h))]
    /\ UNCHANGED <<variant, isAuditable, mode, locks, now, table>>
    /\ started' = started + 1

\* create resumes after checkPrimaryKey.
CreateAfterCheck(s) ==
    /\ calls[s].pc = "create_check"
    /\ \E h \in PreHookOutcomes :
        IF Rejected(calls[s])
        THEN /\ calls' = [calls EXCEPT ![s] = Fail(@, calls[s].pending.error)]
             /\ this' = this
        ELSE /\ this' = HookSystem(CreatePrepare(this, calls[s].data, calls[s].userUUId), h, "createData")
             /\ calls' = [calls EXCEPT ![s] = Await(@, "create_pre", Hook("preCreate", h))]
    /\ UNCHANGED <<variant, isAuditable, mode, locks, now, table, started>>

\* create resumes after preCreate and calls createRow.
CreateAfterPre(s) ==
    /\ calls[s].pc = "create_pre"
    /\ now' \in (IF Rejected(calls[s]) THEN {now} ELSE ClockReadings)
    /\ IF Rejected(calls[s])
       THEN /\ calls' = [calls EXCEPT ![s] = Fail(@, calls[s].pending.error)]
            /\ table' = table
       ELSE LET fields == CreateFields(this, calls[s].userUUId)
                rows == createRow(table, fields, this.columnNames, now')
            IN  IF rows = {}
                THEN /\ table' = table
                     /\ calls' = [calls EXCEPT ![s] =
                            Await(@, "create_write",
                                  Ev(this.query, "createRow", EmptyRec, fields, TRUE,
                                     this.columnNames, FALSE,
                                     Err("DuplicateKeyError")))]
                ELSE \E row \in rows :
                     /\ table' = table \cup {row}
                     /\ calls' = [calls EXCEPT ![s] =
                            Await(@, "create_write",
                                  Ev(this.query, "createRow", EmptyRec, fields, TRUE,
                                     this.columnNames, FALSE,
                                     Ok(pickObjectKeys(row, this.columnNames))))]
    /\ UNCHANGED <<variant, isAuditable, mode, locks, this, started>>

\* create resumes after createRow and calls postCreate.
CreateAfterWrite(s) ==
    /\ calls[s].pc = "create_write"
    /\ \E ok \in BOOLEAN :
        IF Rejected(calls[s])
        THEN /\ calls' = [calls EXCEPT ![s] = Fail(@, calls[s].pending.error)]
             /\ this' = this
        ELSE /\ this' = CreateStore(this, calls[s].pending.row)
             /\ calls' = [calls EXCEPT ![s] =
                    Await(@, "create_post", Hook("postCreate", [ok |-> ok]))]
    /\ UNCHANGED <<variant, isAuditable, mode, locks, now, table, started>>

\* create resumes after postCreate and returns.
CreateAfterPost(s) ==
    /\ calls[s].pc = "create_post"
    /\ calls' = [calls EXCEPT ![s] =
            IF Rejected(calls[s]) THEN Fail(@, calls[s].pending.error)
            ELSE Done(@, CreateReturn(this))]
    /\ UNCHANGED <<variant, isAuditable, mode, locks, now, table, this, started>>

(* ------------------------------ update --------------------------------- *)

\* The instance fields update sets before the locking lookup.
UpdateEntry(t, primaryKey, updateData) ==
    IF variant = "Service"
    THEN [t EXCEPT !.primaryKey = primaryKey, !.updateData = updateData,
                   !.system = EmptyRec]
    ELSE [t EXCEPT !.primaryKey = primaryKey]

\* The payload update overlays on the row it found.
UpdateOverlay(t, updateData) ==
    IF variant = "Service" THEN t.updateData ELSE updateData

\* Mutant: the no-op test compares the whole rows, not their data columns.
UpdateIsNoOpWholeRow(row, updateData) == areObjectsEqual(Assign(row, updateData), row)

\* Mutant: the no-op test never holds, so every update writes.
UpdateIsNoOpNever(row, updateData) == FALSE

\* The no-op test: the merged row and the current row agree on the data columns.
UpdateIsNoOp(row, updateData) ==
    LET mergedRow == Assign(row, updateData)
    IN  areObjectsEqual(pickObjectKeys(mergedRow, dataColumnNames),
                        pickObjectKeys(row, dataColumnNames))

\* Mutant: without an actor update stamps a null last updater.
UpdateAuditNullActor(userUUId, date) ==
    IF variant = "Service" \/ (variant = "index" /\ ~isAuditable) THEN EmptyRec
    ELSE [last_update_date |-> date,
          last_updated_by |-> IF userUUId # Undefined THEN userUUId ELSE Null]

\* Mutant: update stamps the date and forgets the actor.
UpdateAuditNoActor(userUUId, date) ==
    IF variant = "Service" \/ (variant = "index" /\ ~isAuditable) THEN EmptyRec
    ELSE [last_update_date |-> date]

\* The audit fields update stamps.
UpdateAudit(userUUId, date) ==
    IF variant = "Service" \/ (variant = "index" /\ ~isAuditable) THEN EmptyRec
    ELSE IF userUUId # Undefined
    THEN [last_update_date |-> date, last_updated_by |-> userUUId]
    ELSE [last_update_date |-> date]

\* The payload update keeps for the write.
UpdatePayload(updateData) ==
    IF variant = "index" THEN pickObjectKeys(updateData, dataColumnNames) ELSE updateData

\* The instance fields update sets between the no-op test and preUpdate.
UpdatePrepare(t, updateData, userUUId, date) ==
    CASE variant = "index" ->
            [t EXCEPT !.updateData = UpdatePayload(updateData), !.system = EmptyRec]
      [] variant = "part_000" ->
            [t EXCEPT !.updateData = UpdatePayload(updateData),
                      !.audit = UpdateAudit(userUUId, date), !.system = EmptyRec]
      [] OTHER -> t

\* The fields update passes to updateRow.
UpdateFields(t, userUUId, date) ==
    CASE variant = "index" ->
            Assign(Assign(t.updateData, t.system), UpdateAudit(userUUId, date))
      [] variant = "part_000" -> Assign(Assign(t.updateData, t.audit), t.system)
      [] OTHER -> Assign(t.updateData, t.system)

\* The key update passes to updateRow.
UpdateKey(t) == t.primaryKey

\* The instance field that holds the updated row.
UpdateStore(t, row) ==
    IF variant = "Service" THEN [t EXCEPT !.row = row] ELSE [t EXCEPT !.updatedRow = row]

\* Mutant: update returns this.row, the row of the lookup, after a write too.
UpdateReturnRow(t) == t.row

\* The row update returns after a write.
UpdateReturn(t) == IF variant = "Service" THEN t.row ELSE t.updatedRow

\* Mutant: update reads the row without the lock intent.
UpdateForUpdateOff == FALSE

\* The forUpdate option update passes to its lookup.
UpdateForUpdate == TRUE

\* update(query, primaryKey, updateData, userUUId) up to the locking lookup.
UpdateBegin(s, primaryKey, updateData, userUUId) ==
    /\ CanBegin(s)
    /\ LET t == UpdateEntry([this EXCEPT !.query = QueryOf(s)], primaryKey, updateData)
       IN  /\ this' = t
           /\ calls' = [calls EXCEPT ![s] =
                Await(NewCall("update", primaryKey, updateData, userUUId), "update_find",
                      Ev(t.query, "findByPrimaryKey", t.primaryKey, EmptyRec, TRUE, this.columnNames,
                         UpdateForUpdate,
                         findByPrimaryKey(table, t.primaryKey, TRUE, this.columnNames)))]
    /\ UNCHANGED <<variant, isAuditable, mode, locks, now, table>>
    /\ started' = started + 1

\* update resumes after the lookup: the no-op test, then preUpdate or return.
UpdateAfterFind(s) ==
    /\ calls[s].pc = "update_find"
    /\ \E h \in PreHookOutcomes :
        IF Rejected(calls[s])
        THEN /\ calls' = [calls EXCEPT ![s] = Fail(@, calls[s].pending.error)]
             /\ this' = this
             /\ now' = now
        ELSE LET t == [this EXCEPT !.row = calls[s].pending.row]
             IN  IF UpdateIsNoOp(t.row, UpdateOverlay(t, calls[s].data))
                 THEN /\ this' = t
                      /\ calls' = [calls EXCEPT ![s] = Done(@, t.row)]
                      /\ now' = now
                 ELSE /\ now' \in (IF variant = "part_000" THEN ClockReadings ELSE {now})
                      /\ this' = HookSystem(
                            UpdatePrepare(t, calls[s].data, calls[s].userUUId, now'), h, "updateData")
                      /\ calls' = [calls EXCEPT ![s] =
                            Await(@, "update_pre", Hook("preUpdate", h))]
    /\ UNCHANGED <<variant, isAuditable, mode, locks, table, started>>

\* update resumes after preUpdate and calls updateRow.
UpdateAfterPre(s) ==
    /\ calls[s].pc = "update_pre"
    /\ now' \in (IF ~Rejected(calls[s]) /\ variant = "index" /\ isAuditable
                 THEN ClockReadings ELSE {now})
    /\ IF Rejected(calls[s])
       THEN /\ calls' = [calls EXCEPT ![s] = Fail(@, calls[s].pending.error)]
            /\ table' = table
       ELSE LET fields == UpdateFields(this, calls[s].userUUId, now')
                w == updateRow(table, UpdateKey(this), fields, this.columnNames)
            IN  /\ table' = w.table
                /\ calls' = [calls EXCEPT ![s] =
                        Await(@, "update_write",
                              Ev(this.query, "updateRow", UpdateKey(this), fields, TRUE,
                                 this.columnNames, FALSE, w.pending))]
    /\ UNCHANGED <<variant, isAuditable, mode, locks, this, started>>

\* update resumes after updateRow and calls postUpdate.
UpdateAfterWrite(s) ==
    /\ calls[s].pc = "update_write"
    /\ \E ok \in BOOLEAN :
        IF Rejected(calls[s])
        THEN /\ calls' = [calls EXCEPT ![s] = Fail(@, calls[s].pending.error)]
             /\ this' = this
        ELSE /\ this' = UpdateStore(this, calls[s].pending.row)
             /\ calls' = [calls EXCEPT ![s] =
                    Await(@, "update_post", Hook("postUpdate", [ok |-> ok]))]
    /\ UNCHANGED <<variant, isAuditable, mode, locks, now, table, started>>

\* update resumes after postUpdate and returns.
UpdateAfterPost(s) ==
    /\ calls[s].pc = "update_post"
    /\ calls' = [calls EXCEPT ![s] =
            IF Rejected(calls[s]) THEN Fail(@, calls[s].pending.error)
            ELSE Done(@, UpdateReturn(this))]
    /\ UNCHANGED <<variant, isAuditable, mode, locks, now, table, this, started>>

(* ------------------------------ findOne -------------------------------- *)

\* The column list findOne passes to the lookup.
FindOneColumns == IF variant = "Service" THEN <<>> ELSE this.columnNames

\* findOne(query, primaryKey) up to preFindOne.
FindOneBegin(s, primaryKey) ==
    /\ CanBegin(s)
    /\ \E ok \in BOOLEAN :
        /\ this' = [this EXCEPT !.query = QueryOf(s), !.primaryKey = primaryKey]
        /\ calls' = [calls EXCEPT ![s] =
                Await(NewCall("findOne", primaryKey, EmptyRec, Undefined), "findOne_pre",
                      Hook("preFindOne", [ok |-> ok]))]
    /\ UNCHANGED <<variant, isAuditable, mode, locks, now, table>>
    /\ started' = started + 1

\* findOne resumes after preFindOne and looks the row up.
FindOneAfterPre(s) ==
    /\ calls[s].pc = "findOne_pre"
    /\ calls' = [calls EXCEPT ![s] =
            IF Rejected(calls[s]) THEN Fail(@, calls[s].pending.error)
            ELSE Await(@, "findOne_find",
                       Ev(this.query, "findByPrimaryKey", this.primaryKey, EmptyRec, TRUE,
                          FindOneColumns, FALSE,
                          findByPrimaryKey(table, this.primaryKey, TRUE, FindOneColumns)))]
    /\ UNCHANGED <<variant, isAuditable, mode, locks, now, table, this, started>>

\* findOne resumes after the lookup and calls postFindOne.
FindOneAfterFind(s) ==
    /\ calls[s].pc = "findOne_find"
    /\ \E ok \in BOOLEAN :
        IF Rejected(calls[s])
        THEN /\ calls' = [calls EXCEPT ![s] = Fail(@, calls[s].pending.error)]
             /\ this' = this
        ELSE /\ this' = [this EXCEPT !.row = calls[s].pending.row]
             /\ calls' = [calls EXCEPT ![s] =
                    Await(@, "findOne_post", Hook("postFindOne", [ok |-> ok]))]
    /\ UNCHANGED <<variant, isAuditable, mode, locks, now, table, started>>

\* findOne resumes after postFindOne and returns this.row.
FindOneAfterPost(s) ==
    /\ calls[s].pc = "findOne_post"
    /\ calls' = [calls EXCEPT ![s] =
            IF Rejected(calls[s]) THEN Fail(@, calls[s].pending.error)
            ELSE Done(@, this.row)]
    /\ UNCHANGED <<variant, isAuditable, mode, locks, now, table, this, started>>

(* ------------------------------- find ---------------------------------- *)

\* find(query) up to preFind.
FindBegin(s) ==
    /\ CanBegin(s)
    /\ \E ok \in BOOLEAN :
        calls' = [calls EXCEPT ![s] =
            Await(NewCall("find", EmptyRec, EmptyRec, Undefined), "find_pre",
                  Hook("preFind", [ok |-> ok]))]
    /\ this' = [this EXCEPT !.query = QueryOf(s)]
    /\ UNCHANGED <<variant, isAuditable, mode, locks, now, table>>
    /\ started' = started + 1

\* Mutant: find runs a query of its own between the hooks.
FindAfterPreQuery(ok) ==
    Ev(this.query, "findByPrimaryKey", EmptyRec, EmptyRec, FALSE, <<>>, FALSE,
       findByPrimaryKey(table, EmptyRec, FALSE, <<>>))

\* What find awaits once preFind has resolved: postFind, and no query.
FindAfterPreStep(ok) == Hook("postFind", [ok |-> ok])

\* find resumes after preFind and calls postFind.
FindAfterPre(s) ==
    /\ calls[s].pc = "find_pre"
    /\ \E ok \in BOOLEAN :
        calls' = [calls EXCEPT ![s] =
            IF Rejected(calls[s]) THEN Fail(@, calls[s].pending.error)
            ELSE Await(@, "find_post", FindAfterPreStep(ok))]
    /\ UNCHANGED <<variant, isAuditable, mode, locks, now, table, this, started>>

\* find resumes after postFind and returns.
FindAfterPost(s) ==
    /\ calls[s].pc = "find_post"
    /\ calls' = [calls EXCEPT ![s] =
            IF Rejected(calls[s]) THEN Fail(@, calls[s].pending.error)
            ELSE Done(@, EmptyRec)]
    /\ UNCHANGED <<variant, isAuditable, mode, locks, now, table, this, started>>

(* ------------------------------ delete --------------------------------- *)

\* Mutant: delete passes the first key column alone to deleteRow.
DeleteKeyFirstColumn(t) == pickObjectKeys(t.primaryKey, <<primaryKeyColumnNames[1]>>)

\* The key delete passes to deleteRow.
DeleteKey(t) == t.primaryKey

\* delete(query, primaryKey) up to the locking lookup.
DeleteBegin(s, primaryKey) ==
    /\ CanBegin(s)
    /\ this' = [this EXCEPT !.query = QueryOf(s), !.primaryKey = primaryKey]
    /\ calls' = [calls EXCEPT ![s] =
            Await(NewCall("delete", primaryKey, EmptyRec, Undefined), "delete_find",
                  Ev(QueryOf(s), "findByPrimaryKey", primaryKey, EmptyRec, FALSE, <<>>, TRUE,
                     findByPrimaryKey(table, primaryKey, FALSE, <<>>)))]
    /\ UNCHANGED <<variant, isAuditable, mode, locks, now, table>>
    /\ started' = started + 1

\* delete resumes after the lookup and calls preDelete.
DeleteAfterFind(s) ==
    /\ calls[s].pc = "delete_find"
    /\ \E ok \in BOOLEAN :
        IF Rejected(calls[s])
        THEN /\ calls' = [calls EXCEPT ![s] = Fail(@, calls[s].pending.error)]
             /\ this' = this
        ELSE /\ this' = [this EXCEPT !.row = calls[s].pending.row]
             /\ calls' = [calls EXCEPT ![s] =
                    Await(@, "delete_pre", Hook("preDelete", [ok |-> ok]))]
    /\ UNCHANGED <<variant, isAuditable, mode, locks, now, table, started>>

\* delete resumes after preDelete and calls deleteRow.
DeleteAfterPre(s) ==
    /\ calls[s].pc = "delete_pre"
    /\ IF Rejected(calls[s])
       THEN /\ calls' = [calls EXCEPT ![s] = Fail(@, calls[s].pending.error)]
            /\ table' = table
       ELSE \E out \in DeleteOutcomes :
            /\ table' = IF out.ok THEN deleteRow(table, DeleteKey(this)) ELSE table
            /\ calls' = [calls EXCEPT ![s] =
                    Await(@, "delete_write",
                          Ev(this.query, "deleteRow", DeleteKey(this), EmptyRec, FALSE, <<>>,
                             FALSE, out))]
    /\ UNCHANGED <<variant, isAuditable, mode, locks, now, this, started>>

\* delete resumes after deleteRow and calls postDelete.
DeleteAfterWrite(s) ==
    /\ calls[s].pc = "delete_write"
    /\ \E ok \in BOOLEAN :
        calls' = [calls EXCEPT ![s] =
            IF Rejected(calls[s]) THEN Fail(@, calls[s].pending.error)
            ELSE Await(@, "delete_post", Hook("postDelete", [ok |-> ok]))]
    /\ UNCHANGED <<variant, isAuditable, mode, locks, now, table, this, started>>

\* delete resumes after postDelete and returns.
DeleteAfterPost(s) ==
    /\ calls[s].pc = "delete_post"
    /\ calls' = [calls EXCEPT ![s] =
            IF Rejected(calls[s]) THEN Fail(@, calls[s].pending.error)
            ELSE Done(@, EmptyRec)]
    /\ UNCHANGED <<variant, isAuditable, mode, locks, now, table, this, started>>

(* ----------------------- update under row locks ----------------------- *)
(* The same update, run by callers that give every request a transaction   *)
(* of its own on one row.  The database (external) is modelled from its    *)
(* interface: a read with forUpdate and a write take the row lock for the  *)
(* transaction of the Query handle they are issued on, they wait while     *)
(* another transaction holds it, and the lock is held until the caller     *)
(* ends that transaction, which it does once its call has returned.        *)

\* The row the locking callers update.
LockingKeys == {[id |-> 1, rev |-> 1]}

LockingPayloads == {[price |-> 10], [price |-> 12]}

\* The transaction of q may take the row lock of key.
CanLock(key, q) == locks[key] \in {NoQuery, q}

\* The row locks after the transaction of q touched key.
Lock(rows, key, q) ==
    IF Matching(rows, key) # {} THEN [locks EXCEPT ![key] = q] ELSE locks

\* The outcome of an invocation that waits for a row lock.
Waiting == Err("waiting")

InitLocking == InitMode("locking")

\* update up to the locking lookup, which is issued on this.query.
LockedUpdateBegin(s, primaryKey, updateData, userUUId) ==
    /\ CanBegin(s)
    /\ LET t == UpdateEntry([this EXCEPT !.query = QueryOf(s)], primaryKey, updateData)
       IN  /\ this' = t
           /\ calls' = [calls EXCEPT ![s] =
                Await(NewCall("update", primaryKey, updateData, userUUId), "update_lock",
                      Ev(t.query, "findByPrimaryKey", t.primaryKey, EmptyRec, TRUE, this.columnNames,
                         UpdateForUpdate, Waiting))]
    /\ UNCHANGED <<variant, isAuditable, mode, locks, now, table>>
    /\ started' = started + 1

\* The database serves the lookup once its transaction may lock the row.
LockedUpdateRead(s) ==
    /\ calls[s].pc = "update_lock"
    /\ LET ev == calls[s].trace[1]
           out == findByPrimaryKey(table, ev.key, TRUE, this.columnNames)
       IN  /\ ev.forUpdate => CanLock(ev.key, ev.query)
           /\ locks' = IF ev.forUpdate THEN Lock(table, ev.key, ev.query) ELSE locks
           /\ calls' = [calls EXCEPT ![s].pc = "update_find", ![s].pending = out,
                                     ![s].trace[1].out = out]
    /\ UNCHANGED <<variant, isAuditable, mode, now, table, this, started>>

\* update resumes after preUpdate and issues updateRow on this.query.
LockedUpdateAfterPre(s) ==
    /\ calls[s].pc = "update_pre"
    /\ now' \in (IF ~Rejected(calls[s]) /\ variant = "index" /\ isAuditable
                 THEN ClockReadings ELSE {now})
    /\ calls' = [calls EXCEPT ![s] =
            IF Rejected(calls[s]) THEN Fail(@, calls[s].pending.error)
            ELSE Await(@, "update_wlock",
                       Ev(this.query, "updateRow", UpdateKey(this),
                          UpdateFields(this, calls[s].userUUId, now'), TRUE, this.columnNames,
                          FALSE, Waiting))]
    /\ UNCHANGED <<variant, isAuditable, mode, locks, table, this, started>>

\* The database performs the write once its transaction may lock the row.
LockedUpdateWrite(s) ==
    /\ calls[s].pc = "update_wlock"
    /\ LET n == Len(calls[s].trace)
           ev == calls[s].trace[n]
           w == updateRow(table, ev.key, ev.fields, this.columnNames)
       IN  /\ CanLock(ev.key, ev.query)
           /\ locks' = Lock(table, ev.key, ev.query)
           /\ table' = w.table
           /\ calls' = [calls EXCEPT ![s].pc = "update_write", ![s].pending = w.pending,
                                     ![s].trace[n].out = w.pending]
    /\ UNCHANGED <<variant, isAuditable, mode, now, this, started>>

\* The caller of the call in slot s ends its transaction after the call has
\* returned or failed: the row locks of its Query handle are released.
Commit(s) ==
    /\ calls[s].pc \in {"done", "failed"}
    /\ \E k \in PrimaryKeys : locks[k] = QueryOf(s)
    /\ locks' = [k \in PrimaryKeys |-> IF locks[k] = QueryOf(s) THEN NoQuery ELSE locks[k]]
    /\ UNCHANGED <<variant, isAuditable, mode, now, table, this, calls, started>>

(* --------------------------- specifications ---------------------------- *)

Next ==
    \/ \E s \in Slots, d \in CreatePayloads, u \in CreateUsers : CreateBegin(s, d, u)
    \/ \E s \in Slots : CreateAfterCheck(s)
    \/ \E s \in Slots : CreateAfterPre(s)
    \/ \E s \in Slots : CreateAfterWrite(s)
    \/ \E s \in Slots : CreateAfterPost(s)
    \/ \E s \in Slots, k \in PrimaryKeys, d \in UpdatePayloads, u \in UpdateUsers :
            UpdateBegin(s, k, d, u)
    \/ \E s \in Slots : UpdateAfterFind(s)
    \/ \E s \in Slots : UpdateAfterPre(s)
    \/ \E s \in Slots : UpdateAfterWrite(s)
    \/ \E s \in Slots : UpdateAfterPost(s)
    \/ \E s \in Slots, k \in PrimaryKeys : FindOneBegin(s, k)
    \/ \E s \in Slots : FindOneAfterPre(s)
    \/ \E s \in Slots : FindOneAfterFind(s)
    \/ \E s \in Slots : FindOneAfterPost(s)
    \/ \E s \in Slots : FindBegin(s)
    \/ \E s \in Slots : FindAfterPre(s)
    \/ \E s \in Slots : FindAfterPost(s)
    \/ \E s \in Slots, k \in PrimaryKeys : DeleteBegin(s, k)
    \/ \E s \in Slots : DeleteAfterFind(s)
    \/ \E s \in Slots : DeleteAfterPre(s)
    \/ \E s \in Slots : DeleteAfterWrite(s)
    \/ \E s \in Slots : DeleteAfterPost(s)

\* Calls made one after the other on the instance.
Spec == Init /\ [][Next]_vars

\* Calls that overlap on the instance.
SpecConcurrent == InitConcurrent /\ [][Next]_vars

NextLocking ==
    \/ \E s \in Slots, k \in LockingKeys, d \in LockingPayloads, u \in UpdateUsers :
            LockedUpdateBegin(s, k, d, u)
    \/ \E s \in Slots : LockedUpdateRead(s)
    \/ \E s \in Slots : UpdateAfterFind(s)
    \/ \E s \in Slots : LockedUpdateAfterPre(s)
    \/ \E s \in Slots : LockedUpdateWrite(s)
    \/ \E s \in Slots : UpdateAfterWrite(s)
    \/ \E s \in Slots : UpdateAfterPost(s)
    \/ \E s \in Slots : Commit(s)

\* Overlapping updates of one row, each in a transaction of its own.
SpecLocking == InitLocking /\ [][NextLocking]_vars

(* ------------------------- overriding pre-hooks ------------------------- *)

\* create and update called one at a time on a service whose preCreate and
\* preUpdate are overridden and may place audit-named fields.
HookCreatePayloads ==
    { [id |-> 1, rev |-> 1, name |-> "a", price |-> 10],
      [id |-> 2, rev |-> 1, name |-> "b", price |-> 10, created_by |-> "x"] }

HookUpdatePayloads == { [price |-> 10], [price |-> 12] }

InitHooks == InitMode("hooks")

NextHooks ==
    \/ \E s \in Slots, d \in HookCreatePayloads, u \in CreateUsers : CreateBegin(s, d, u)
    \/ \E s \in Slots : CreateAfterCheck(s)
    \/ \E s \in Slots : CreateAfterPre(s)
    \/ \E s \in Slots : CreateAfterWrite(s)
    \/ \E s \in Slots : CreateAfterPost(s)
    \/ \E s \in Slots, k \in PrimaryKeys, d \in HookUpdatePayloads, u \in UpdateUsers :
            UpdateBegin(s, k, d, u)
    \/ \E s \in Slots : UpdateAfterFind(s)
    \/ \E s \in Slots : UpdateAfterPre(s)
    \/ \E s \in Slots : UpdateAfterWrite(s)
    \/ \E s \in Slots : UpdateAfterPost(s)

SpecHooks == InitHooks /\ [][NextHooks]_vars

(* -------------------------- consecutive updates ------------------------- *)

\* update called one call after the other, each call on record in its slot.
InitHistory == InitMode("history")

NextHistory ==
    \/ \E s \in Slots, k \in PrimaryKeys, d \in UpdatePayloads, u \in UpdateUsers :
            UpdateBegin(s, k, d, u)
    \/ \E s \in Slots : UpdateAfterFind(s)
    \/ \E s \in Slots : UpdateAfterPre(s)
    \/ \E s \in Slots : UpdateAfterWrite(s)
    \/ \E s \in Slots : UpdateAfterPost(s)

SpecHistory == InitHistory /\ [][NextHistory]_vars

(* ------------------------------ claims --------------------------------- *)

\* The positions of the invocations of one kind in the trace of a call.
EventsOf(c, kind) == {i \in DOMAIN c.trace : c.trace[i].kind = kind}

\* An update call whose locking lookup found a row and has been resumed.
UpdateFound(c) ==
    /\ c.op = "update"
    /\ c.pc # "update_find"
    /\ c.trace[1].out.ok

\* The row the locking lookup of an update call returned.
LookedUp(c) == c.trace[1].out.row

\* The payload u leaves every data column of row as it is.
SameOnData(row, u) ==
    \A col \in Range(dataColumnNames) \cap DOMAIN u : row[col] = u[col]

\* C1: when the current row and the current row overlaid with the payload
\* agree on the data columns, update issues no updateRow, returns the row
\* of the locking lookup, and the stored row (its last_update_date and
\* last_updated_by included) is what the lookup read.
C1_NoOpUpdateWritesNothing ==
    \A s \in Slots :
        LET c == calls[s]
        IN  (UpdateFound(c) /\ SameOnData(LookedUp(c), c.data)) =>
                /\ c.pc = "done"
                /\ EventsOf(c, "updateRow") = {}
                /\ c.result = LookedUp(c)
                /\ findByPrimaryKey(table, c.primaryKey, TRUE, columnNames) = c.trace[1].out

\* C1 happens: a no-op update by actor u2 of a row last updated by u1.
C1_Witness ==
    \E s \in Slots :
        LET c == calls[s]
        IN  /\ UpdateFound(c) /\ c.pc = "done"
            /\ c.data = [price |-> 10] /\ c.userUUId = "u2"
            /\ isAuditable /\ c.result.last_updated_by = "u1"

\* C2: an update that takes the no-op branch invokes neither preUpdate nor
\* postUpdate.
C2_NoOpUpdateInvokesNoHook ==
    \A s \in Slots :
        LET c == calls[s]
        IN  (UpdateFound(c) /\ SameOnData(LookedUp(c), c.data)) =>
                /\ EventsOf(c, "preUpdate") = {}
                /\ EventsOf(c, "postUpdate") = {}

\* C2 happens: an update whose payload names no data column has returned
\* after the lookup alone.
C2_Witness ==
    \E s \in Slots :
        LET c == calls[s]
        IN  /\ UpdateFound(c) /\ c.pc = "done"
            /\ c.data = [extra |-> "x"] /\ Len(c.trace) = 1

\* The payload u changes a data column of row.
ChangesData(row, u) ==
    \E col \in Range(dataColumnNames) \cap DOMAIN u : row[col] # u[col]

\* An update call that changed a data column and returned.
UpdateWrote(c) == UpdateFound(c) /\ c.pc = "done" /\ ChangesData(LookedUp(c), c.data)

\* The updateRow invocation of a call that made one.
UpdateRowOf(c) == c.trace[CHOOSE i \in EventsOf(c, "updateRow") : TRUE]

C4_Original ==
    \A s \in Slots :
        LET c == calls[s]
        IN  c.op = "update" =>
                /\ \A i \in EventsOf(c, "updateRow") :
                        (DOMAIN c.data \ Range(dataColumnNames)) \cap DOMAIN c.trace[i].fields = {}
                /\ UpdateFound(c) =>
                        (EventsOf(c, "preUpdate") = {} <=> SameOnData(LookedUp(c), c.data))

\* C5 as stated: the fields passed to updateRow hold no primary-key column,
\* and the key passed to updateRow is the primaryKey argument of the call.
C5_Original ==
    \A s \in Slots :
        LET c == calls[s]
        IN  c.op = "update" =>
                \A i \in EventsOf(c, "updateRow") :
                    /\ DOMAIN c.trace[i].fields \cap Range(primaryKeyColumnNames) = {}
                    /\ c.trace[i].key = c.primaryKey
                    /\ c.trace[1].key = c.primaryKey

\* The primary-key part of the payload of a create call.
PayloadKey(c) == pickObjectKeys(c.data, primaryKeyColumnNames)

\* The rows a create call has inserted.
InsertedBy(c) ==
    {c.trace[i].out.row : i \in {j \in EventsOf(c, "createRow") : c.trace[j].out.ok}}

\* C6: create with every primary-key column in the payload, for a key the
\* table held before the call, invokes the uniqueness check with that key
\* and nothing else (no insert, no preCreate, no postCreate), and fails with
\* the check's DuplicateKeyError.
C6_DuplicateCreateFails ==
    \A s \in Slots :
        LET c == calls[s]
        IN  (/\ c.op = "create"
             /\ IsFullKey(PayloadKey(c))
             /\ Matching(table \ InsertedBy(c), PayloadKey(c)) # {}) =>
                /\ Len(c.trace) = 1
                /\ c.trace[1].kind = "checkPrimaryKey"
                /\ c.trace[1].key = PayloadKey(c)
                /\ c.trace[1].out = Err("DuplicateKeyError")
                /\ c.pc \in {"create_check", "failed"}
                /\ c.pc = "failed" => c.error = "DuplicateKeyError"

\* C6 happens: a create for a stored key has failed on the duplicate key.
C6_Witness ==
    \E s \in Slots :
        LET c == calls[s]
        IN  /\ c.op = "create" /\ c.pc = "failed" /\ c.error = "DuplicateKeyError"
            /\ IsFullKey(PayloadKey(c))
            /\ Matching(table, PayloadKey(c)) # {}
            /\ EventsOf(c, "createRow") = {}

\* C7 as stated: create with a primary-key column missing from the payload
\* never invokes the uniqueness check.
C7_Original ==
    \A s \in Slots :
        LET c == calls[s]
        IN  (c.op = "create" /\ ~IsFullKey(PayloadKey(c))) =>
                EventsOf(c, "checkPrimaryKey") = {}

\* The control points at which a call awaits its lookup.
FindPcs == {"findOne_find", "update_find", "delete_find"}

\* C8: findOne, update and delete look up the key they were called with;
\* when it matches no row the lookup fails, the call fails with the
\* lookup's NotFoundError, and nothing follows the lookup: no updateRow, no
\* deleteRow, no hook.
C8_NotFoundStops ==
    \A s \in Slots :
        LET c == calls[s]
        IN  c.op \in {"findOne", "update", "delete"} =>
                \A i \in EventsOf(c, "findByPrimaryKey") :
                    /\ c.trace[i].key = c.primaryKey
                    /\ c.pc \in FindPcs =>
                            (c.trace[i].out.ok <=> Matching(table, c.primaryKey) # {})
                    /\ ~c.trace[i].out.ok =>
                            /\ c.trace[i].out.error = "NotFoundError"
                            /\ i = Len(c.trace)
                            /\ EventsOf(c, "updateRow") \cup EventsOf(c, "deleteRow") = {}
                            /\ c.pc \in FindPcs \cup {"failed"}
                            /\ c.pc = "failed" => c.error = "NotFoundError"

\* C8 happens: a delete of a key that matches no row has failed.
C8_Witness ==
    \E s \in Slots :
        LET c == calls[s]
        IN  /\ c.op = "delete" /\ c.pc = "failed" /\ c.error = "NotFoundError"
            /\ Matching(table, c.primaryKey) = {}
            /\ Len(c.trace) = 1

\* Every other call made on the instance is a call of op with another key
\* and another payload than the call in slot s.
OthersAre(s, op) ==
    \A t \in Slots \ {s} :
        \/ calls[t].op = ""
        \/ /\ calls[t].op = op
           /\ calls[t].primaryKey # calls[s].primaryKey \/ op = "create"
           /\ calls[t].data # calls[s].data

\* C9 as stated: the updateRow of an update call is passed the primary key
\* and the data-column payload of that same call, whatever other update
\* runs on the instance at the same time.
C9_Original ==
    \A s \in Slots :
        LET c == calls[s]
        IN  (c.op = "update" /\ OthersAre(s, "update")) =>
                \A i \in EventsOf(c, "updateRow") :
                    /\ c.trace[i].key = c.primaryKey
                    /\ pickObjectKeys(c.trace[i].fields, dataColumnNames)
                            = pickObjectKeys(c.data, dataColumnNames)

\* C10 as stated: the createRow of a create call is passed the payload and
\* the actor of that same call, and the call returns the row its own
\* createRow produced, whatever other create runs at the same time.
C10_Original ==
    \A s \in Slots :
        LET c == calls[s]
        IN  (c.op = "create" /\ OthersAre(s, "create")) =>
                /\ \A i \in EventsOf(c, "createRow") :
                        LET f == c.trace[i].fields
                        IN  /\ pickObjectKeys(f, primaryKeyColumnNames \o dataColumnNames) = c.data
                            /\ "created_by" \in DOMAIN f => f.created_by = c.userUUId
                            /\ "last_updated_by" \in DOMAIN f => f.last_updated_by = c.userUUId
                            /\ (isAuditable /\ c.userUUId # Undefined) => "created_by" \in DOMAIN f
                /\ c.pc = "done" =>
                        \E i \in EventsOf(c, "createRow") : c.result = c.trace[i].out.row

\* Every other call made on the instance is a call of one of ops with
\* another primary key than the call in slot s.
OthersHaveOtherKey(s, ops) ==
    \A t \in Slots \ {s} :
        \/ calls[t].op = ""
        \/ calls[t].op \in ops /\ calls[t].primaryKey # calls[s].primaryKey

\* C11 as stated: a delete that overlaps a findOne, update or delete of
\* another key passes its own key to deleteRow, and a findOne that overlaps
\* a delete of another key looks up its own key and returns that key's row.
C11_Original ==
    \A s \in Slots :
        LET c == calls[s]
        IN  /\ (c.op = "delete" /\ OthersHaveOtherKey(s, {"findOne", "update", "delete"})) =>
                    \A i \in EventsOf(c, "deleteRow") : c.trace[i].key = c.primaryKey
            /\ (c.op = "findOne" /\ OthersHaveOtherKey(s, {"delete"})) =>
                    /\ \A i \in EventsOf(c, "findByPrimaryKey") : c.trace[i].key = c.primaryKey
                    /\ c.pc = "done" =>
                            pickObjectKeys(c.result, primaryKeyColumnNames) = c.primaryKey

\* The stored row of the key of call c, as a lookup would return it.
Stored(c) == findByPrimaryKey(table, c.primaryKey, TRUE, columnNames)

\* C12: the lookup of update is issued with forUpdate on the Query handle of
\* the caller for the key of the call, and from the moment it is served
\* until the call's own updateRow is performed the stored row stays the row
\* the lookup read: no other transaction writes it in between.
C12_LockingReadHoldsRow ==
    \A s \in Slots :
        LET c == calls[s]
        IN  c.op = "update" =>
                /\ c.trace[1].kind = "findByPrimaryKey"
                /\ c.trace[1].forUpdate
                /\ c.trace[1].query = QueryOf(s)
                /\ c.trace[1].key = c.primaryKey
                /\ (c.trace[1].out.ok /\ c.pc \in {"update_find", "update_pre", "update_wlock"}) =>
                        Stored(c) = c.trace[1].out

\* C12 happens: an update waits for the row lock that the transaction of
\* another update, which has written the row, still holds.
C12_Witness ==
    \E s, t \in Slots :
        /\ s # t
        /\ mode = "locking"
        /\ calls[s].pc = "update_write" /\ calls[s].pending.ok
        /\ calls[t].pc = "update_lock"
        /\ calls[t].primaryKey = calls[s].primaryKey
        /\ locks[calls[t].primaryKey] = QueryOf(s)

\* C13: the fields create passes to createRow carry created_by and
\* last_updated_by, both the actor, when auditing is enabled and an actor is
\* given; they carry neither when no actor is given; they never carry
\* creation_date or last_update_date.
C13_CreateStampsActor ==
    \A s \in Slots :
        LET c == calls[s]
        IN  c.op = "create" =>
                \A i \in EventsOf(c, "createRow") :
                    LET f == c.trace[i].fields
                    IN  /\ (isAuditable /\ c.userUUId # Undefined) =>
                                /\ {"created_by", "last_updated_by"} \subseteq DOMAIN f
                                /\ f.created_by = c.userUUId
                                /\ f.last_updated_by = c.userUUId
                        /\ c.userUUId = Undefined =>
                                {"created_by", "last_updated_by"} \cap DOMAIN f = {}
                        /\ {"creation_date", "last_update_date"} \cap DOMAIN f = {}

\* C13 happens: a create by actor u1 with auditing enabled has returned a
\* row created and last updated by u1, dated by the data layer.
C13_Witness ==
    \E s \in Slots :
        LET c == calls[s]
        IN  /\ c.op = "create" /\ c.pc = "done" /\ isAuditable /\ c.userUUId = "u1"
            /\ c.result.created_by = "u1" /\ c.result.last_updated_by = "u1"
            /\ c.result.creation_date = now

\* C14 as stated: the fields update passes to updateRow carry neither
\* created_by nor creation_date, and the written row keeps the created_by
\* and creation_date the lookup read.
C14_Original ==
    \A s \in Slots :
        LET c == calls[s]
        IN  UpdateFound(c) =>
                \A i \in EventsOf(c, "updateRow") :
                    /\ {"created_by", "creation_date"} \cap DOMAIN c.trace[i].fields = {}
                    /\ (isAuditable /\ c.trace[i].out.ok) =>
                            /\ c.trace[i].out.row.created_by = LookedUp(c).created_by
                            /\ c.trace[i].out.row.creation_date = LookedUp(c).creation_date

\* C15 as stated: no system column of the caller's createData or updateData
\* is among the fields passed to createRow or updateRow with the caller's
\* value.
C15_Original ==
    \A s \in Slots :
        LET c == calls[s]
        IN  c.op \in {"create", "update"} =>
                \A i \in EventsOf(c, "createRow") \cup EventsOf(c, "updateRow") :
                    \A col \in Range(systemColumnNames) \cap DOMAIN c.data :
                        col \in DOMAIN c.trace[i].fields =>
                            c.trace[i].fields[col] # c.data[col]

PreHooks == {"preCreate", "preUpdate", "preDelete"}

PostHooks == {"postCreate", "postUpdate", "postDelete"}

Writes == {"createRow", "updateRow", "deleteRow"}

\* The positions of the physical writes in the trace of a call.
WritesOf(c) == {i \in DOMAIN c.trace : c.trace[i].kind \in Writes}

\* The control points at which a call awaits a hook.
HookPcs ==
    {"create_pre", "update_pre", "delete_pre", "create_post", "update_post", "delete_post"}

\* The table holds what the write at position i of call c left in it.
WriteStands(c, i) ==
    LET ev == c.trace[i]
    IN  CASE ev.kind = "deleteRow" -> Matching(table, ev.key) = {}
          [] OTHER -> ev.out.row \in {pickObjectKeys(r, columnNames) : r \in table}

\* C16: when preCreate, preUpdate or preDelete rejects, the call fails with
\* the hook's error and has issued no write; when postCreate, postUpdate or
\* postDelete rejects, the call fails with the hook's error and the write it
\* issued before the hook stands in the table.
C16_HookFailureAborts ==
    \A s \in Slots :
        LET c == calls[s]
        IN  \A i \in DOMAIN c.trace :
                (c.trace[i].kind \in PreHooks \cup PostHooks /\ ~c.trace[i].out.ok) =>
                    /\ i = Len(c.trace)
                    /\ c.pc \in HookPcs \cup {"failed"}
                    /\ c.pc = "failed" => c.error = c.trace[i].out.error
                    /\ c.trace[i].kind \in PreHooks => WritesOf(c) = {}
                    /\ c.trace[i].kind \in PostHooks =>
                            /\ WritesOf(c) = {i - 1}
                            /\ c.trace[i - 1].out.ok
                            /\ WriteStands(c, i - 1)

\* C16 happens: an update has failed with the error of postUpdate, and the
\* row it wrote is stored.
C16_Witness ==
    \E s \in Slots :
        LET c == calls[s]
        IN  /\ c.op = "update" /\ c.pc = "failed" /\ c.error = "HookError"
            /\ c.trace[Len(c.trace)].kind = "postUpdate"
            /\ c.data = [price |-> 12]
            /\ Stored(c).ok /\ Stored(c).row.price = 12

Collaborators ==
    {"checkPrimaryKey", "findByPrimaryKey", "createRow", "updateRow", "deleteRow"}

\* The control points at which a call awaits a collaborator.
CollaboratorPcs ==
    {"create_check", "create_write", "update_find", "update_write", "findOne_find",
     "delete_find", "delete_write"}

\* C17: when a collaborator rejects, nothing follows it in the call and the
\* call fails with the collaborator's error; no collaborator is invoked
\* twice by a call, and a call issues at most one createRow, updateRow or
\* deleteRow.
C17_CollaboratorFailureAborts ==
    \A s \in Slots :
        LET c == calls[s]
        IN  /\ \A i \in DOMAIN c.trace :
                    (c.trace[i].kind \in Collaborators /\ ~c.trace[i].out.ok) =>
                        /\ i = Len(c.trace)
                        /\ c.pc \in CollaboratorPcs \cup {"failed"}
                        /\ c.pc = "failed" => c.error = c.trace[i].out.error
            /\ \A kind \in Collaborators : Cardinality(EventsOf(c, kind)) <= 1
            /\ Cardinality(WritesOf(c)) <= 1

\* C17 happens: a create has failed with the DuplicateKeyError of createRow,
\* its one write.
C17_Witness ==
    \E s \in Slots :
        LET c == calls[s]
        IN  /\ c.op = "create" /\ c.pc = "failed" /\ c.error = "DuplicateKeyError"
            /\ c.trace[Len(c.trace)].kind = "createRow"
            /\ WritesOf(c) = {Len(c.trace)}

\* The kinds of the invocations of a call, in the order it made them.
Steps(c) == [i \in DOMAIN c.trace |-> c.trace[i].kind]

\* C18 as stated: a create that returns has invoked, in this order and once
\* each, checkPrimaryKey (when, and only when, the payload carries every
\* primary-key column), preCreate, createRow and postCreate, and returns
\* the row createRow produced.
C18_Original ==
    \A s \in Slots :
        LET c == calls[s]
        IN  (c.op = "create" /\ c.pc = "done") =>
                /\ Steps(c) = (IF IsFullKey(PayloadKey(c)) THEN <<"checkPrimaryKey">> ELSE <<>>)
                                \o <<"preCreate", "createRow", "postCreate">>
                /\ c.result = c.trace[Len(c.trace) - 1].out.row

\* C19: an update that changed a data column and returned has invoked, in
\* this order and once each, the lookup with forUpdate, preUpdate, updateRow
\* with the configured column names, and postUpdate, and returns the row
\* updateRow produced, which is not the row the lookup read.
C19_WritingUpdateSteps ==
    \A s \in Slots :
        LET c == calls[s]
        IN  UpdateWrote(c) =>
                /\ Steps(c) = <<"findByPrimaryKey", "preUpdate", "updateRow", "postUpdate">>
                /\ c.trace[1].forUpdate
                /\ c.trace[3].hasCols /\ c.trace[3].cols = columnNames
                /\ c.result = c.trace[3].out.row
                /\ DOMAIN c.result = Range(columnNames)
                /\ c.result # LookedUp(c)

\* C19 happens: an update of price from 10 to 12 has returned the written
\* row.
C19_Witness ==
    \E s \in Slots :
        LET c == calls[s]
        IN  /\ UpdateWrote(c) /\ Len(c.trace) = 4
            /\ LookedUp(c).price = 10 /\ c.result.price = 12

\* p is an initial part of q.
IsPrefix(p, q) == Len(p) <= Len(q) /\ p = SubSeq(q, 1, Len(p))

\* C20: delete invokes, in this order and at most once each, the lookup with
\* forUpdate, preDelete, deleteRow for the key it was called with, and
\* postDelete; a delete that returns has invoked all four, and the table
\* then holds no row for the key.
C20_DeleteSteps ==
    \A s \in Slots :
        LET c == calls[s]
        IN  c.op = "delete" =>
                /\ IsPrefix(Steps(c), <<"findByPrimaryKey", "preDelete", "deleteRow", "postDelete">>)
                /\ c.trace[1].forUpdate /\ c.trace[1].key = c.primaryKey
                /\ \A i \in EventsOf(c, "deleteRow") : c.trace[i].key = c.primaryKey
                /\ c.pc = "done" =>
                        /\ Len(c.trace) = 4
                        /\ Matching(table, c.primaryKey) = {}

\* C20 happens: a delete of a stored row has returned and the other row is
\* still stored.
C20_Witness ==
    \E s \in Slots :
        LET c == calls[s]
        IN  /\ c.op = "delete" /\ c.pc = "done"
            /\ c.trace[1].out.ok /\ c.trace[3].kind = "deleteRow"
            /\ Matching(table, c.primaryKey) = {}
            /\ Cardinality(table) = 1

\* C21 as stated: findOne invokes, in this order and at most once each,
\* preFindOne, one lookup of its key with the configured column names and
\* without forUpdate, and postFindOne; a findOne that returns has invoked
\* all three and returns the row of the lookup; it issues no write.
C21_Original ==
    \A s \in Slots :
        LET c == calls[s]
        IN  c.op = "findOne" =>
                /\ IsPrefix(Steps(c), <<"preFindOne", "findByPrimaryKey", "postFindOne">>)
                /\ \A i \in EventsOf(c, "findByPrimaryKey") :
                        /\ c.trace[i].key = c.primaryKey
                        /\ c.trace[i].hasCols /\ c.trace[i].cols = columnNames
                        /\ ~c.trace[i].forUpdate
                /\ WritesOf(c) = {}
                /\ c.pc = "done" =>
                        /\ Len(c.trace) = 3
                        /\ c.result = c.trace[2].out.row

\* C22: find invokes preFind and then postFind, at most once each and in
\* that order, and nothing else: no collaborator; a find that returns has
\* invoked both.
C22_FindOnlyHooks ==
    \A s \in Slots :
        LET c == calls[s]
        IN  c.op = "find" =>
                /\ IsPrefix(Steps(c), <<"preFind", "postFind">>)
                /\ \A kind \in Collaborators : EventsOf(c, kind) = {}
                /\ c.pc = "done" => Len(c.trace) = 2

\* C22 happens: a find has returned on a table that holds rows, which it
\* left as they were.
C22_Witness ==
    \E s \in Slots :
        LET c == calls[s]
        IN  /\ c.op = "find" /\ c.pc = "done"
            /\ Steps(c) = <<"preFind", "postFind">>
            /\ table # {}

\* The data columns of a row or payload.
DataOf(r) == pickObjectKeys(r, dataColumnNames)

\* The data columns of the rows stored under key k.
StoredData(rows, k) == {DataOf(r) : r \in Matching(rows, k)}

\* In this step the call in slot s has had a write of the kind performed.
Performs(s, kind) ==
    /\ Len(calls'[s].trace) = Len(calls[s].trace) + 1
    /\ calls'[s].trace[Len(calls'[s].trace)].kind = kind
    /\ calls'[s].trace[Len(calls'[s].trace)].out.ok

\* A step leaves the data stored under every key as it is, or it is the
\* insert of a create (the key was absent and now holds the payload), the
\* write of an update of that key (the stored data overlaid with the
\* payload), or the delete of that key (the key is absent).
C23_Step ==
    \A k \in PrimaryKeys :
        \/ StoredData(table', k) = StoredData(table, k)
        \/ \E s \in Slots :
            /\ Performs(s, "createRow") /\ calls[s].op = "create"
            /\ StoredData(table, k) = {}
            /\ StoredData(table', k) = {DataOf(calls[s].data)}
            /\ \A col \in DOMAIN PayloadKey(calls[s]) : k[col] = calls[s].data[col]
        \/ \E s \in Slots :
            /\ Performs(s, "updateRow") /\ calls[s].op = "update"
            /\ calls[s].primaryKey = k
            /\ StoredData(table, k) # {}
            /\ StoredData(table', k) = {DataOf(Assign(r, calls[s].data)) : r \in Matching(table, k)}
        \/ \E s \in Slots :
            /\ Performs(s, "deleteRow") /\ calls[s].op = "delete"
            /\ calls[s].primaryKey = k
            /\ StoredData(table', k) = {}

\* findOne returns the data stored under its key, and findOne, update and
\* delete of a key that holds no row fail with NotFoundError.
C23_State ==
    \A s \in Slots :
        LET c == calls[s]
        IN  /\ (c.op = "findOne" /\ c.pc = "done") =>
                    \E d \in StoredData(table, c.primaryKey) :
                        \A col \in DOMAIN c.result \cap DOMAIN d : c.result[col] = d[col]
            /\ (c.op \in {"findOne", "update", "delete"} /\ c.pc \in FindPcs) =>
                    (StoredData(table, c.primaryKey) = {}
                        <=> c.pending = Err("NotFoundError"))

\* C23 as stated: the data findOne returns for a key is the payload of the
\* create of that key overlaid with the payloads of its writing updates in
\* order, and from its delete to its next create the key is not found.
C23_Original == [][C23_Step]_vars /\ []C23_State

\* The primary keys stored in the rows.
StoredKeys(rows) == {pickObjectKeys(r, primaryKeyColumnNames) : r \in rows}

\* The write of an update leaves the set of stored primary keys as it is.
C24_Step ==
    \A s \in Slots :
        (Performs(s, "updateRow") /\ calls[s].op = "update")
            => StoredKeys(table') = StoredKeys(table)

\* The row an update returns carries the primary key passed to the call.
C24_State ==
    \A s \in Slots :
        LET c == calls[s]
        IN  (c.op = "update" /\ c.pc = "done")
                => pickObjectKeys(c.result, primaryKeyColumnNames) = c.primaryKey

\* C24 as stated: an update never modifies primary-key values, also when
\* its payload carries a primary-key column with a different value; the
\* stored keys are the same before and after and the returned row carries
\* the key passed to the call.
C24_Original == [][C24_Step]_vars /\ []C24_State

\* C25: in every state this.columnNames is the primary-key columns, then
\* the data columns, then the four audit columns when auditing is enabled,
\* then the system columns; and it is the list every write is given.
C25_ColumnListFixed ==
    /\ this.columnNames =
            <<"id", "rev">> \o <<"name", "price">>
                \o (IF isAuditable
                    THEN <<"creation_date", "created_by", "last_update_date", "last_updated_by">>
                    ELSE <<>>)
                \o <<"sys">>
    /\ \A s \in Slots : \A i \in WritesOf(calls[s]) :
            calls[s].trace[i].hasCols => calls[s].trace[i].cols = this.columnNames

C25_Witness ==
    /\ started = MaxCalls
    /\ \E s \in Slots : calls[s].op = "update" /\ calls[s].pc = "done" /\ UpdateWrote(calls[s])
    /\ Len(this.columnNames) \in {5, 9}

\* The audit columns among the fields of an invocation.
AuditFieldsOf(ev) == DOMAIN ev.fields \cap Range(auditColumnNames)

\* C26: when auditing is disabled, an audit field among the fields of an
\* insert or an update-row write is one the caller's payload carried, with
\* the caller's value, whether or not an actor is given; and no column list
\* passed to a collaborator holds an audit column.
C26_NoAuditWhenDisabled ==
    ~isAuditable =>
        \A s \in Slots :
            LET c == calls[s]
            IN  /\ \A i \in EventsOf(c, "createRow") \cup EventsOf(c, "updateRow") :
                    \A col \in AuditFieldsOf(c.trace[i]) :
                        col \in DOMAIN c.data /\ c.trace[i].fields[col] = c.data[col]
                /\ \A i \in DOMAIN c.trace :
                        Range(c.trace[i].cols) \cap Range(auditColumnNames) = {}

C26_Witness ==
    \E s \in Slots :
        LET c == calls[s]
        IN  /\ ~isAuditable /\ variant = "index"
            /\ c.op = "create" /\ c.pc = "done" /\ c.userUUId = "u1"
            /\ \E i \in EventsOf(c, "createRow") : AuditFieldsOf(c.trace[i]) = {}

C28_Original ==
    isAuditable =>
        \A s \in Slots :
            LET c == calls[s]
            IN  /\ (c.op = "create" /\ c.userUUId # Undefined) =>
                    \A i \in EventsOf(c, "createRow") :
                        /\ c.trace[i].fields.created_by = c.userUUId
                        /\ c.trace[i].fields.last_updated_by = c.userUUId
                /\ c.op = "update" =>
                    \A i \in EventsOf(c, "updateRow") :
                        /\ c.trace[i].fields.last_update_date \in 0 .. now
                        /\ c.userUUId # Undefined =>
                                c.trace[i].fields.last_updated_by = c.userUUId

\* The second call repeats the first, a writing update that succeeded.
Repeats(a, b) ==
    /\ UpdateWrote(a)
    /\ b.op = "update" /\ b.primaryKey = a.primaryKey /\ b.data = a.data

\* C29 as stated: immediately after a writing update(key, u) succeeded, a
\* second update(key, u) looks the row up and does nothing else: no write,
\* no hook, no failure, and it returns a row equal to the row the first
\* call returned.
C29_Original ==
    LET a == calls[1]
        b == calls[2]
    IN  Repeats(a, b) =>
            /\ IsPrefix(Steps(b), <<"findByPrimaryKey">>)
            /\ b.pc # "failed"
            /\ b.pc = "done" => b.result = a.result

\* A create whose payload carries the whole primary key.
CreatesKey(c, k) == c.op = "create" /\ PayloadKey(c) = k

\* C30 as stated: of two creates with the same fully populated key, however
\* they interleave, at most one has createRow performed; and the insert of
\* a create whose key passed checkPrimaryKey does not find the key taken.
C30_Original ==
    \A k \in PrimaryKeys :
        /\ \A s, t \in Slots :
            (s # t /\ CreatesKey(calls[s], k) /\ CreatesKey(calls[t], k))
                => (EventsOf(calls[s], "createRow") = {} \/ EventsOf(calls[t], "createRow") = {})
        /\ \A s \in Slots :
            LET c == calls[s]
            IN  (CreatesKey(c, k) /\ \E i \in EventsOf(c, "checkPrimaryKey") : c.trace[i].out.ok)
                    => \A i \in EventsOf(c, "createRow") :
                            c.trace[i].out # Err("DuplicateKeyError")

====
